---- MODULE Spec2Model ----
(***************************************************************************)
(* Lucky Kameti: the membership ledger, the payment reconciliation         *)
(* (/capture-order), the winner lifecycle and the withdrawal requests.     *)
(*                                                                         *)
(* The PostgreSQL tables are the shared state.  Every request handler is   *)
(* a process; each of its steps is one SQL statement (one `await db...`)   *)
(* together with the JavaScript that runs up to the next await.  No        *)
(* handler opens a transaction, so statements of different requests        *)
(* interleave freely; the storage layer enforces the UNIQUE and FOREIGN    *)
(* KEY constraints of the schema on every statement.                       *)
(*                                                                         *)
(* Spec is the system with every handler of the ledger, on a database and  *)
(* a mail service that execute what they are asked.  EligibilitySpec,      *)
(* WinnerSpec and FaultSpec are parts of it under conditions Spec does not *)
(* reach: every entry count, a clock that advances, statements and         *)
(* deliveries that fail.                                                   *)
(***************************************************************************)
EXTENDS Integers, FiniteSets, Sequences, TLC

VARIABLES
    entries,      \* table entries: a set of rows
    entrySeq,     \* next id of the serial entries.id (ids are only compared
                  \* for equality, so the values a failed INSERT skips are
                  \* not modelled)
    winners,      \* table winners: a set of rows
    winnerSeq,    \* next value of the serial winners.id
    withdrawals,  \* table withdrawal_requests: a set of rows
    withdrawalSeq,\* next value of the serial withdrawal_requests.id
    procs,        \* the requests in flight: slot -> handler position and locals
    resp,         \* the HTTP response sent by the last step (NoResp if none)
    started,      \* number of requests received so far
    sent,         \* the emails delivered by the last step ({} if none)
    now,          \* the clock (new Date()), in minutes
    inquiries,    \* table inquiries: a set of rows
    referrals     \* history: the referrer links the reconciliations made

vars == <<entries, entrySeq, winners, winnerSeq, withdrawals, withdrawalSeq,
          procs, resp, started, sent, now, inquiries, referrals>>

----------------------------------------------------------------------------
(* Bounds of the model *)

\* total number of requests the model lets arrive
MaxRequests == 2

\* largest entry count of the ledgers the withdrawal amounts are checked on
MaxEntryCount == 20

\* request slots: the requests that can be in flight at the same time
Procs == {1, 2}

Emails == {"a", "b", "c"}

\* the reference codes Math.random can produce ("DW" + 5 digits), cut down
RefCodes == {"DW1", "DW2", "DW3", "DW4"}

\* referralCode of the request body: "" is the absent (falsy) code
ReferralInputs == {"", "DW1", "DW2", "DW3"}

\* outcome of the PayPal capture call
PayOutcomes == {"ok", "failed", "mismatch"}

\* the time of the last writes to the ledger the model starts from
SeedTime == 1

\* the latest time the clock of WinnerSpec reaches
MaxTime == 8

----------------------------------------------------------------------------
(* Program constants *)

maxAttempts == 5

\* 30 * 24 * 60 * 60 * 1000 ms, in minutes
ThirtyDays == 30 * 24 * 60

\* 5 * 60 * 1000 ms, in minutes
FiveMinutes == 5

\* referred_by IS NULL
NULL == 0

----------------------------------------------------------------------------
(* Rows *)

\* a row of entries whose last payment was reconciled at SeedTime
Entry(id, email, ref, status, referredBy, referralCount, entryCount) ==
    [id |-> id, email |-> email, ref |-> ref, status |-> status,
     referredBy |-> referredBy, referralCount |-> referralCount,
     entryCount |-> entryCount,
     paid |-> TRUE, termsAccepted |-> TRUE,
     lastPaymentDate |-> SeedTime, renewalDue |-> SeedTime + ThirtyDays]

\* a row of winners; one that is paid was paid at SeedTime
Winner(id, entry, paymentStatus) ==
    [id |-> id, entryId |-> entry.id, email |-> entry.email, ref |-> entry.ref,
     paymentStatus |-> paymentStatus,
     paidAt |-> IF paymentStatus = "paid" THEN SeedTime ELSE NULL]

\* The database outlives the server process: the model starts with it in one
\* of these states, each of which the handlers below reach from the empty
\* database.  "a" (and "c") paid once after the last monthly reset; "b" paid
\* ten times, and either was expired by the last reset or was drawn as the
\* winner and paid out
SeedA == Entry(1, "a", "DW1", "active", NULL, 0, 1)
SeedB(status) == Entry(2, "b", "DW2", status, NULL, 0, 10)
SeedC == Entry(3, "c", "DW3", "active", NULL, 0, 1)

Seeds ==
    { [entries |-> {SeedA, SeedB("expired")}, winners |-> {}],
      [entries |-> {SeedA, SeedB("expired"), SeedC}, winners |-> {}],
      [entries |-> {SeedA, SeedB("winner_paid")},
       winners |-> {Winner(1, SeedB("active"), "paid")}] }

First(rows) == CHOOSE r \in rows : TRUE

\* db.select().from(entries).where(eq(entries.email, email))
ByEmail(email) == {e \in entries : e.email = email}

\* db.select().from(entries).where(eq(entries.ref, ref))
ByRef(ref) == {e \in entries : e.ref = ref}

\* db.select().from(entries).where(eq(entries.id, id))
ById(id) == {e \in entries : e.id = id}

----------------------------------------------------------------------------
(* Storage-layer constraints of the schema *)

\* mutant: the email column without its UNIQUE constraint
RefUniqueOnly(email, ref) ==
    IF {e \in entries : e.ref = ref} # {} THEN "entries_ref_unique" ELSE ""

\* entries.email UNIQUE and entries.ref UNIQUE: the constraint an insert of
\* (email, ref) violates (error 23505), "" if none
UniqueViolation(email, ref) ==
    IF ByEmail(email) # {} THEN "entries_email_unique"
    ELSE IF ByRef(ref) # {} THEN "entries_ref_unique"
    ELSE ""

\* entries.referred_by REFERENCES entries(id): error 23503 when the row
\* written points at no entry
ReferrerMissing(referredBy) == referredBy # NULL /\ ById(referredBy) = {}

\* mutant: winners.entry_id without its FOREIGN KEY constraint
ReferencedByLedger(id) ==
    {e \in entries : e.referredBy = id /\ e.id # id}
      \cup {r \in withdrawals : r.entryId = id}

\* rows of any table that REFERENCE entries(id) = id, the entry itself
\* apart; with the default ON DELETE NO ACTION a DELETE of that entry fails
\* with error 23503
ReferencedBy(id) ==
    {e \in entries : e.referredBy = id /\ e.id # id}
      \cup {w \in winners : w.entryId = id}
      \cup {r \in withdrawals : r.entryId = id}

----------------------------------------------------------------------------
(* Requests in flight *)

\* a free slot; the locals of every handler, at their initial values
Idle ==
    [kind |-> "none", pc |-> "idle",
     email |-> "", referralCode |-> "", termsAccepted |-> FALSE, pay |-> "",
     id |-> 0,
     existingEntry |-> {}, ref |-> "", attempts |-> 0,
     validatedReferrer |-> {}, updated |-> {}, dbError |-> "", rows |-> {},
     amounts |-> [entryCount |-> 0], fiveMinutesAgo |-> 0, failed |-> {}]

\* what a response says of its request: the request body, for
\* /capture-order the rows its INSERT or UPDATE returned, and the emails
\* whose delivery was attempted and failed
Response(me, result) ==
    [kind |-> me.kind, result |-> result,
     email |-> me.email, referralCode |-> me.referralCode,
     termsAccepted |-> me.termsAccepted, pay |-> me.pay, id |-> me.id,
     ref |-> me.ref, renewed |-> me.existingEntry # {}, updated |-> me.updated,
     attempts |-> me.attempts, dbError |-> me.dbError, amounts |-> me.amounts,
     failed |-> me.failed]

NoResp == Response(Idle, "")

\* mutant: every type selects the verification template
sendVerificationOnly(email, type) ==
    {[to |-> email, template |-> "paymentVerification"]}

\* sendAutomatedEmail(email, type, data): the template the type selects is
\* sent to `email`; an unknown type sends nothing, and a failure of the
\* delivery is caught and logged
sendAutomatedEmail(email, type) ==
    CASE type = "payment_confirmation_new" ->
           {[to |-> email, template |-> "paymentVerification"]}
      [] type = "payment_confirmation_renewal" ->
           {[to |-> email, template |-> "renewalNotification"]}
      [] type = "status_active" ->
           {[to |-> email, template |-> "paymentVerification"]}
      [] type = "renewal_reminder" ->
           {[to |-> email, template |-> "duePaymentReminder"]}
      [] OTHER -> {}

\* mutant: a failed delivery is thrown to the handler
NotificationRethrown(delivered) == ~delivered

\* whether a delivery that was not made raises an error in the handler that
\* awaits sendAutomatedEmail: sendEmail catches every error and returns
\* {success: false}, and sendAutomatedEmail catches and logs what is left
NotificationThrows(delivered) == FALSE

\* the handler in slot p goes on, with `next` as its position and locals
Goto(p, next) ==
    /\ procs' = [procs EXCEPT ![p] = next]
    /\ resp' = NoResp
    /\ sent' = {}

\* res.status(...).json(...) / res.json(...): the handler in slot p, whose
\* locals are `me`, returns
Answer(p, me, result) ==
    /\ procs' = [procs EXCEPT ![p] = Idle]
    /\ resp' = Response(me, result)
    /\ sent' = {}

Respond(p, result) == Answer(p, procs[p], result)

\* the handler in slot p dispatches `mails`, then returns
RespondAfter(p, mails, result) ==
    /\ procs' = [procs EXCEPT ![p] = Idle]
    /\ resp' = Response(procs[p], result)
    /\ sent' = mails

DbUnchanged ==
    UNCHANGED <<entries, entrySeq, winners, winnerSeq, withdrawals, withdrawalSeq,
                referrals>>

\* history of the referrer links: `attached` holds <<referrer id, entry id>>
\* for every write that put a referrer into an entry that had none; `stale`
\* says that some renewal wrote a referrer without newly attaching it (its
\* UPDATE met no row, or a row that had a referrer by then)
NoReferrals == [attached |-> {}, stale |-> FALSE]

\* a request arrives and takes the first free slot (slots are interchangeable)
Admit(p) ==
    /\ procs[p].pc = "idle"
    /\ \A q \in Procs : q < p => procs[q].pc # "idle"
    /\ started < MaxRequests
    /\ started' = started + 1
    /\ UNCHANGED now

\* the request of a handler that does not write to inquiries
Arrive(p) ==
    /\ Admit(p)
    /\ UNCHANGED inquiries

Running(p, kind, pc) ==
    /\ procs[p].kind = kind
    /\ procs[p].pc = pc
    /\ UNCHANGED <<started, now, inquiries>>

----------------------------------------------------------------------------
(* POST /capture-order *)

\* mutant: the terms are not checked
TermsIgnored(termsAccepted) == FALSE

\* if (!termsAccepted)
TermsMissing(termsAccepted) == ~termsAccepted

\* mutant: the captured amount is not verified
AmountUnchecked(outcome) == FALSE

\* !capturedAmount || capturedAmount.value !== "50.00"
\*                  || capturedAmount.currency_code !== "USD"
AmountMismatch(outcome) == outcome = "mismatch"

\* the request body arrives: terms check, the first lookup of the entry by
\* email, then the PayPal capture and the check of its status, amount and
\* currency (the capture touches no table, so it is taken with the lookup).
\* The server is deployed with its PayPal credentials: without them every
\* request is answered 503 before anything else
CaptureOrder(p) ==
    \E email \in Emails, code \in ReferralInputs, terms \in BOOLEAN,
       outcome \in PayOutcomes :
        LET me == [Idle EXCEPT !.kind = "capture", !.email = email,
                               !.referralCode = code, !.termsAccepted = terms]
            found == ByEmail(email)
        IN  /\ Arrive(p)
            /\ DbUnchanged
            /\ IF TermsMissing(terms)
                 THEN Answer(p, me, "TermsNotAccepted")
               ELSE IF found # {} /\ First(found).status = "active"
                 THEN Answer(p, me, "AlreadyActive")
               ELSE IF outcome = "failed"
                 THEN Answer(p, [me EXCEPT !.pay = outcome], "PaymentCaptureFailed")
               ELSE IF AmountMismatch(outcome)
                 THEN Answer(p, [me EXCEPT !.pay = outcome], "PaymentMismatch")
               ELSE Goto(p, [me EXCEPT !.pay = outcome, !.existingEntry = found,
                                       !.pc = "loop"])

\* head of the retry loop, up to the first statement of the iteration
LoopHead(me) ==
    [me EXCEPT !.ref = "", !.attempts = @ + 1, !.validatedReferrer = {},
               !.dbError = ""]

\* while (attempts < maxAttempts)
LoopCondition(me) == me.attempts < maxAttempts

\* mutant: the status of the referrer is not checked
ReferralErrorNoStatus(referrer, email) ==
    IF referrer = {} THEN "InvalidReferralCode"
    ELSE IF First(referrer).email = email THEN "SelfReferral"
    ELSE ""

\* mutant: the referrer's email is not compared with the payer's
ReferralErrorAllowsSelf(referrer, email) ==
    IF referrer = {} THEN "InvalidReferralCode"
    ELSE IF First(referrer).status # "active" THEN "ReferrerInactive"
    ELSE ""

\* the checks of the referrer read, in the order of the code: the error
\* answered, "" if the referrer is valid
ReferralError(referrer, email) ==
    IF referrer = {} THEN "InvalidReferralCode"
    ELSE IF First(referrer).status # "active" THEN "ReferrerInactive"
    ELSE IF First(referrer).email = email THEN "SelfReferral"
    ELSE ""

\* an iteration with a referral code: the referrer is read and validated
CaptureValidate(p) ==
    LET me == LoopHead(procs[p])
        referrer == ByRef(me.referralCode)
        error == ReferralError(referrer, me.email)
    IN  /\ Running(p, "capture", "loop")
        /\ me.referralCode # ""
        /\ DbUnchanged
        /\ IF error # ""
             THEN Answer(p, me, error)
             ELSE Goto(p, [me EXCEPT !.validatedReferrer = referrer,
                                     !.pc = "save"])

\* the iteration reaches its INSERT or UPDATE: after the validation, or
\* straight from the loop head when the request carries no referral code
AtSave(p) ==
    /\ procs[p].kind = "capture"
    /\ \/ procs[p].pc = "save"
       \/ procs[p].pc = "loop" /\ procs[p].referralCode = ""
    /\ UNCHANGED <<started, now, inquiries>>

Saving(p) == IF procs[p].pc = "loop" THEN LoopHead(procs[p]) ELSE procs[p]

\* validatedReferrer && !existingEntry.referredBy
NewReferral(me) ==
    /\ me.validatedReferrer # {}
    /\ First(me.existingEntry).referredBy = NULL

\* mutant: the renewal writes the column default for the count
RenewalResetsCount(email, referredBy) ==
    { IF e.email = email
        THEN [e EXCEPT !.status = "active", !.paid = TRUE,
                       !.lastPaymentDate = now,
                       !.renewalDue = now + ThirtyDays,
                       !.entryCount = 1,
                       !.termsAccepted = TRUE,
                       !.referredBy = IF referredBy # NULL THEN referredBy ELSE @]
        ELSE e : e \in entries }

\* mutant: the renewal does not count the entry paid
RenewalKeepsCount(email, referredBy) ==
    { IF e.email = email
        THEN [e EXCEPT !.status = "active", !.paid = TRUE,
                       !.lastPaymentDate = now,
                       !.renewalDue = now + ThirtyDays,
                       !.termsAccepted = TRUE,
                       !.referredBy = IF referredBy # NULL THEN referredBy ELSE @]
        ELSE e : e \in entries }

\* UPDATE entries SET status = 'active', paid = true, last_payment_date =
\*   :now, renewal_due = :now + 30 days, entry_count = entry_count + 1,
\*   terms_accepted = true [, referred_by = :referrer] WHERE email = :email
RenewalUpdate(email, referredBy) ==
    { IF e.email = email
        THEN [e EXCEPT !.status = "active", !.paid = TRUE,
                       !.lastPaymentDate = now,
                       !.renewalDue = now + ThirtyDays,
                       !.entryCount = @ + 1,
                       !.termsAccepted = TRUE,
                       !.referredBy = IF referredBy # NULL THEN referredBy ELSE @]
        ELSE e : e \in entries }

\* the renewal branch: update the entry in place, keeping its reference
CaptureRenew(p) ==
    LET me == [Saving(p) EXCEPT !.ref = First(procs[p].existingEntry).ref]
        referredBy == IF NewReferral(me) THEN First(me.validatedReferrer).id
                      ELSE NULL
        hit == ByEmail(me.email)
    IN  /\ AtSave(p)
        /\ procs[p].existingEntry # {}
        /\ UNCHANGED <<entrySeq, winners, winnerSeq, withdrawals, withdrawalSeq>>
        /\ IF hit # {} /\ ReferrerMissing(referredBy)
             THEN \* 23503 is caught and answered with 500
                  /\ UNCHANGED <<entries, referrals>>
                  /\ Answer(p, [me EXCEPT !.dbError = "entries_referred_by_fk"],
                            "PersistenceError")
             ELSE /\ entries' = RenewalUpdate(me.email, referredBy)
                  /\ referrals' =
                       IF referredBy = NULL THEN referrals
                       ELSE [attached |-> referrals.attached \cup
                                {<<referredBy, e.id>> :
                                    e \in {h \in hit : h.referredBy = NULL}},
                             stale |-> \/ referrals.stale
                                       \/ hit = {}
                                       \/ \E h \in hit : h.referredBy # NULL]
                  /\ Goto(p, [me EXCEPT
                        !.updated = {e.id : e \in hit},
                        !.pc = IF NewReferral(me) THEN "count" ELSE "notify"])

\* mutant: the new entry is stored without its referrer
NewEntryUnreferred(id, me) ==
    [id |-> id, email |-> me.email, ref |-> me.ref, status |-> "active",
     referredBy |-> NULL, referralCount |-> 0, entryCount |-> 1,
     paid |-> TRUE, termsAccepted |-> me.termsAccepted,
     lastPaymentDate |-> now, renewalDue |-> now + ThirtyDays]

\* INSERT INTO entries (...) VALUES (...)
NewEntry(id, me) ==
    [id |-> id, email |-> me.email, ref |-> me.ref, status |-> "active",
     referredBy |-> IF me.validatedReferrer # {}
                      THEN First(me.validatedReferrer).id ELSE NULL,
     referralCount |-> 0, entryCount |-> 1,
     paid |-> TRUE, termsAccepted |-> me.termsAccepted,
     lastPaymentDate |-> now, renewalDue |-> now + ThirtyDays]

\* mutant: a uniqueness violation is never retried
NeverRetry(me) == FALSE

\* catch (dbError): dbError.code === '23505' && attempts < maxAttempts
\*                  && !existingEntry, for a dbError with code 23505
Retry(me) == me.attempts < maxAttempts /\ me.existingEntry = {}

\* the new-entry branch: insert under the reference drawn for this iteration
\* (the draw does not depend on the ledger and is first used here), and
\* retry on a uniqueness violation
CaptureInsert(p) ==
    \E random \in RefCodes :
        LET me == [Saving(p) EXCEPT !.ref = random]
            row == NewEntry(entrySeq, me)
        IN  /\ AtSave(p)
            /\ procs[p].existingEntry = {}
            /\ UNCHANGED <<winners, winnerSeq, withdrawals, withdrawalSeq>>
            /\ IF UniqueViolation(me.email, me.ref) # ""
                 THEN \* dbError.code === '23505'
                      LET failed == [me EXCEPT
                                !.dbError = UniqueViolation(me.email, me.ref)]
                      IN  /\ UNCHANGED <<entries, entrySeq, referrals>>
                          /\ IF Retry(failed)
                               THEN IF LoopCondition(me)
                                      THEN Goto(p, [failed EXCEPT !.pc = "loop"])
                                      ELSE Answer(p, failed, "ReferenceExhausted")
                               ELSE Answer(p, failed, "PersistenceError")
               ELSE IF ReferrerMissing(row.referredBy)
                 THEN /\ UNCHANGED <<entries, entrySeq, referrals>>
                      /\ Answer(p, [me EXCEPT !.dbError = "entries_referred_by_fk"],
                                "PersistenceError")
               ELSE /\ entries' = entries \cup {row}
                    /\ entrySeq' = entrySeq + 1
                    /\ referrals' =
                         IF row.referredBy = NULL THEN referrals
                         ELSE [referrals EXCEPT
                                 !.attached = @ \cup {<<row.referredBy, row.id>>}]
                    /\ Goto(p, [me EXCEPT
                          !.updated = {row.id},
                          !.pc = IF me.validatedReferrer # {} THEN "count"
                                 ELSE "notify"])

\* mutant: read-modify-write, from the count read at the validation
StoreReferralCount(referrer) ==
    { IF e.id = referrer.id
        THEN [e EXCEPT !.referralCount = referrer.referralCount + 1]
        ELSE e : e \in entries }

\* UPDATE entries SET referral_count = referral_count + 1 WHERE id = :referrer
IncrementReferralCount(referrer) ==
    { IF e.id = referrer.id
        THEN [e EXCEPT !.referralCount = @ + 1]
        ELSE e : e \in entries }

CaptureCount(p) ==
    LET me == procs[p]
    IN  /\ Running(p, "capture", "count")
        /\ UNCHANGED <<entrySeq, winners, winnerSeq,
                       withdrawals, withdrawalSeq, referrals>>
        /\ entries' = IncrementReferralCount(First(me.validatedReferrer))
        /\ Goto(p, [me EXCEPT !.pc = "notify"])

\* the referral increment fails (connection lost, statement timeout): the
\* error is caught at line 400 and answered with 500; nothing is undone
CaptureCountFails(p) ==
    LET me == procs[p]
    IN  /\ Running(p, "capture", "count")
        /\ DbUnchanged
        /\ Answer(p, [me EXCEPT !.dbError = "statement_failed"],
                  "PersistenceError")

\* the confirmation email, delivered or not, then the success answer; an
\* error thrown by the notification would reach the outer catch (line 411)
CaptureNotifyVia(p, delivered) ==
    LET me == procs[p]
        mails == sendAutomatedEmail(me.email,
                    IF me.existingEntry # {}
                      THEN "payment_confirmation_renewal"
                      ELSE "payment_confirmation_new")
    IN  /\ Running(p, "capture", "notify")
        /\ DbUnchanged
        /\ IF NotificationThrows(delivered)
             THEN Answer(p, [me EXCEPT !.failed = mails], "CaptureError")
             ELSE IF delivered
             THEN RespondAfter(p, mails, "success")
             ELSE Answer(p, [me EXCEPT !.failed = mails], "success")

\* the mail service delivers
CaptureNotify(p) == CaptureNotifyVia(p, TRUE)

\* the mail service delivers or fails
CaptureNotifyUnreliable(p) ==
    \E delivered \in BOOLEAN : CaptureNotifyVia(p, delivered)

----------------------------------------------------------------------------
(* POST /admin/select-winner *)

\* mutant: the pending winner is not looked for
NoPendingWinners == {}

\* db.select().from(winners).where(eq(winners.paymentStatus, 'pending'))
PendingWinners == {w \in winners : w.paymentStatus = "pending"}

\* ids a client can name: those of the rows, and one that names no row
EntryIds == {e.id : e \in entries} \cup {entrySeq}

WinnerIds == {w.id : w \in winners} \cup {winnerSeq}

\* the request arrives; the entry is read and must be active
SelectWinner(p) ==
    \E entryId \in EntryIds :
        LET me == [Idle EXCEPT !.kind = "selectWinner", !.id = entryId]
            entry == ById(entryId)
        IN  /\ Arrive(p)
            /\ DbUnchanged
            /\ IF entry = {}
                 THEN Answer(p, me, "EntryNotFound")
               ELSE IF First(entry).status # "active"
                 THEN Answer(p, me, "EntryNotActive")
               ELSE Goto(p, [me EXCEPT !.rows = entry, !.pc = "pending"])

\* the check for an existing pending winner
SelectWinnerPending(p) ==
    LET me == procs[p]
    IN  /\ Running(p, "selectWinner", "pending")
        /\ DbUnchanged
        /\ IF PendingWinners # {}
             THEN Respond(p, "WinnerAlreadyPending")
             ELSE Goto(p, [me EXCEPT !.pc = "insert"])

\* INSERT INTO winners: entry_id REFERENCES entries(id)
SelectWinnerInsert(p) ==
    LET me == procs[p]
        entry == First(me.rows)
    IN  /\ Running(p, "selectWinner", "insert")
        /\ UNCHANGED <<entries, entrySeq, withdrawals, withdrawalSeq, referrals>>
        /\ IF ById(entry.id) = {}
             THEN /\ UNCHANGED <<winners, winnerSeq>>
                  /\ Respond(p, "PersistenceError")
             ELSE /\ winners' = winners \cup {Winner(winnerSeq, entry, "pending")}
                  /\ winnerSeq' = winnerSeq + 1
                  /\ Respond(p, "success")

----------------------------------------------------------------------------
(* DELETE /admin/entry/:id *)

\* mutant: only a pending winner blocks the deletion
PendingReferencedWinner(entryId) ==
    {w \in winners : w.entryId = entryId /\ w.paymentStatus = "pending"}

\* db.select().from(winners).where(eq(winners.entryId, entryId)).limit(1)
ReferencedWinner(entryId) == {w \in winners : w.entryId = entryId}

\* the request arrives; no winner may reference the entry
DeleteEntry(p) ==
    \E entryId \in EntryIds :
        LET me == [Idle EXCEPT !.kind = "deleteEntry", !.id = entryId]
        IN  /\ Arrive(p)
            /\ DbUnchanged
            /\ IF ReferencedWinner(entryId) # {}
                 THEN Answer(p, me, "EntryReferencedByWinner")
                 ELSE Goto(p, [me EXCEPT !.pc = "delete"])

\* DELETE FROM entries WHERE id = :id RETURNING *
DeleteEntryDelete(p) ==
    LET me == procs[p]
        deletedEntries == ById(me.id)
    IN  /\ Running(p, "deleteEntry", "delete")
        /\ UNCHANGED <<entrySeq, winners, winnerSeq,
                       withdrawals, withdrawalSeq, referrals>>
        /\ IF deletedEntries # {} /\ ReferencedBy(me.id) # {}
             THEN \* 23503: the handler's catch answers 500
                  /\ UNCHANGED entries
                  /\ Respond(p, "PersistenceError")
           ELSE IF deletedEntries = {}
             THEN /\ UNCHANGED entries
                  /\ Respond(p, "EntryNotFound")
           ELSE /\ entries' = entries \ deletedEntries
                /\ Respond(p, "success")

----------------------------------------------------------------------------
(* POST /admin/winner-paid and DELETE /admin/winner/:id *)

\* the request arrives:
\* UPDATE winners SET payment_status = 'paid' WHERE id = :winnerId RETURNING *
WinnerPaid(p) ==
    \E winnerId \in WinnerIds :
        LET me == [Idle EXCEPT !.kind = "winnerPaid", !.id = winnerId]
            hit == {w \in winners : w.id = winnerId}
        IN  /\ Arrive(p)
            /\ UNCHANGED <<entries, entrySeq, winnerSeq, withdrawals, withdrawalSeq,
                          referrals>>
            /\ winners' = { IF w.id = winnerId
                              THEN [w EXCEPT !.paymentStatus = "paid",
                                             !.paidAt = now]
                              ELSE w : w \in winners }
            /\ IF hit = {}
                 THEN Answer(p, me, "WinnerNotFound")
                 ELSE Goto(p, [me EXCEPT !.rows = hit, !.pc = "entry"])

\* UPDATE entries SET status = 'winner_paid' WHERE id = :updatedWinner.entryId
WinnerPaidEntry(p) ==
    LET me == procs[p]
        updatedWinner == First(me.rows)
    IN  /\ Running(p, "winnerPaid", "entry")
        /\ UNCHANGED <<entrySeq, winners, winnerSeq,
                       withdrawals, withdrawalSeq, referrals>>
        /\ entries' = { IF e.id = updatedWinner.entryId
                          THEN [e EXCEPT !.status = "winner_paid"]
                          ELSE e : e \in entries }
        /\ Respond(p, "success")

\* mutant: the DELETE without its WHERE clause
AllWinners(winnerId) == winners

\* the rows of DELETE FROM winners WHERE id = :winnerId
WinnersById(winnerId) == {w \in winners : w.id = winnerId}

\* the request arrives: DELETE FROM winners WHERE id = :winnerId RETURNING *
DeleteWinner(p) ==
    \E winnerId \in WinnerIds :
        LET me == [Idle EXCEPT !.kind = "deleteWinner", !.id = winnerId]
            deletedWinners == WinnersById(winnerId)
        IN  /\ Arrive(p)
            /\ UNCHANGED <<entries, entrySeq, winnerSeq, withdrawals, withdrawalSeq,
                          referrals>>
            /\ winners' = winners \ deletedWinners
            /\ IF deletedWinners = {}
                 THEN Answer(p, me, "WinnerNotFound")
                 ELSE Answer(p, me, "success")

----------------------------------------------------------------------------
(* GET /current-winner *)

\* winners.announceDate defaults to the time of the INSERT, so the winners
\* are announced in the order of their serial ids
AnnounceDate(w) == w.id

PaidAt(w) == w.paidAt

\* .orderBy(winners.announceDate).limit(1): a row with the least value of
\* the column
FirstByAnnounceDate(rows) ==
    {r \in rows : \A r2 \in rows : AnnounceDate(r) <= AnnounceDate(r2)}

\* .orderBy(winners.paidAt).limit(1)
FirstByPaidAt(rows) ==
    {r \in rows : \A r2 \in rows : PaidAt(r) <= PaidAt(r2)}

\* the request arrives: the SELECT of the pending winners; without one the
\* handler computes fiveMinutesAgo and goes on to the paid winners
CurrentWinner(p) ==
    LET me == [Idle EXCEPT !.kind = "currentWinner"]
        found == FirstByAnnounceDate(PendingWinners)
    IN  /\ Arrive(p)
        /\ DbUnchanged
        /\ IF found # {}
             THEN \E currentWinner \in found :
                     Answer(p, [me EXCEPT !.id = currentWinner.id], "winner")
             ELSE Goto(p, [me EXCEPT !.fiveMinutesAgo = now - FiveMinutes,
                                     !.pc = "paid"])

\* the SELECT of the winners paid after fiveMinutesAgo, then the answer
CurrentWinnerPaid(p) ==
    LET me == procs[p]
        found == FirstByPaidAt({w \in winners : /\ w.paymentStatus = "paid"
                                                /\ w.paidAt > me.fiveMinutesAgo})
    IN  /\ Running(p, "currentWinner", "paid")
        /\ DbUnchanged
        /\ IF found # {}
             THEN \E currentWinner \in found :
                     Answer(p, [me EXCEPT !.id = currentWinner.id], "winner")
             ELSE Respond(p, "none")

----------------------------------------------------------------------------
(* POST /admin/monthly-reset *)

\* db.select().from(entries).where(eq(entries.status, 'active'))
ActiveEntries == {e \in entries : e.status = "active"}

\* the request arrives; monthlyStatusReset reads the active entries
MonthlyReset(p) ==
    LET me == [Idle EXCEPT !.kind = "monthlyReset"]
    IN  /\ Arrive(p)
        /\ DbUnchanged
        /\ IF ActiveEntries = {}
             THEN Answer(p, me, "success")
             ELSE Goto(p, [me EXCEPT !.rows = ActiveEntries, !.pc = "update"])

\* mutant: the UPDATE without its WHERE clause
ExpireAll == {[e EXCEPT !.status = "expired"] : e \in entries}

\* UPDATE entries SET status = 'expired' WHERE status = 'active'
ExpireActive ==
    { IF e.status = "active" THEN [e EXCEPT !.status = "expired"] ELSE e :
        e \in entries }

\* the reminders to `rows`
Reminders(rows) ==
    UNION {sendAutomatedEmail(entry.email, "renewal_reminder") : entry \in rows}

\* the bulk update, then the reminder emails to the entries read before, of
\* which those to `reached` are delivered, then the success answer; an error
\* thrown by a reminder would end the loop (the catch of monthlyStatusReset,
\* line 1094) before the reminders after it, and the route answers success
MonthlyResetUpdateVia(p, reached) ==
    LET me == procs[p]
    IN  /\ Running(p, "monthlyReset", "update")
        /\ UNCHANGED <<entrySeq, winners, winnerSeq,
                       withdrawals, withdrawalSeq, referrals>>
        /\ entries' = ExpireActive
        /\ procs' = [procs EXCEPT ![p] = Idle]
        /\ IF NotificationThrows(reached = me.rows)
             THEN \E entry \in me.rows \ reached :
                     /\ resp' = Response([me EXCEPT
                                    !.failed = Reminders({entry})], "success")
                     /\ sent' = {}
             ELSE /\ resp' = Response([me EXCEPT
                                 !.failed = Reminders(me.rows \ reached)],
                                      "success")
                  /\ sent' = Reminders(reached)

\* the SELECT of the active entries fails: monthlyStatusReset catches and
\* logs the error (line 1094) and returns, and the route answers success
MonthlyResetSelectFails(p) ==
    LET me == [Idle EXCEPT !.kind = "monthlyReset"]
    IN  /\ Arrive(p)
        /\ DbUnchanged
        /\ Answer(p, [me EXCEPT !.dbError = "statement_failed"], "success")

\* the bulk UPDATE fails: the same catch, no reminder is sent, and the route
\* answers success
MonthlyResetUpdateFails(p) ==
    /\ Running(p, "monthlyReset", "update")
    /\ DbUnchanged
    /\ Answer(p, [procs[p] EXCEPT !.dbError = "statement_failed"], "success")

\* the mail service delivers
MonthlyResetUpdate(p) == MonthlyResetUpdateVia(p, procs[p].rows)

\* the mail service delivers some reminders and fails on the others
MonthlyResetUpdateUnreliable(p) ==
    \E reached \in SUBSET procs[p].rows : MonthlyResetUpdateVia(p, reached)

----------------------------------------------------------------------------
(* POST /check-withdrawal-eligibility and POST /submit-withdrawal-request *)

\* Math.round(num / den) for num >= 0: the nearest integer, halves upwards.
\* The products of the code are doubles; their error (below 1e-3 for every
\* 32-bit entryCount) is far from the half that would change the rounding,
\* so the exact quotient is rounded
MathRound(num, den) == (2 * num + den) \div (2 * den)

\* entryCount * 50, in dollars
TotalPaid(entryCount) == entryCount * 50

\* mutant: Math.round(totalPaid * 0.07), the charge rounded to the dollar
ServiceChargeWholeDollars(totalPaid) == MathRound(totalPaid * 7, 100) * 100

\* Math.round(totalPaid * 0.07 * 100) / 100, in cents
ServiceCharge(totalPaid) == MathRound(totalPaid * 7 * 100, 100)

\* Math.round((totalPaid - serviceCharge) * 100) / 100, in cents
RefundAmount(totalPaid, serviceCharge) ==
    MathRound(totalPaid * 100 - serviceCharge, 1)

\* a dollar amount as a numeric(12, 2), in cents
Cents(dollars) == dollars * 100

\* the amounts both handlers compute from an entry count
Amounts(entryCount) ==
    LET totalPaid == TotalPaid(entryCount)
        serviceCharge == ServiceCharge(totalPaid)
    IN  [entryCount |-> entryCount,
         totalPaid |-> Cents(totalPaid),
         serviceCharge |-> serviceCharge,
         refundAmount |-> RefundAmount(totalPaid, serviceCharge)]

WithdrawalRequest(id, member) ==
    LET amounts == Amounts(member.entryCount)
    IN  [id |-> id, entryId |-> member.id, memberEmail |-> member.email,
         entryCount |-> member.entryCount,
         totalPaid |-> amounts.totalPaid,
         serviceChargeAmount |-> amounts.serviceCharge,
         refundAmount |-> amounts.refundAmount,
         status |-> "pending"]

\* mutant: the existing request is not looked for
NoExistingRequest(entryId) == {}

\* db.select().from(withdrawalRequests).where(eq(withdrawalRequests.entryId, id))
ExistingRequest(entryId) == {r \in withdrawals : r.entryId = entryId}

\* the request arrives; the member is read
CheckEligibility(p) ==
    \E email \in Emails :
        LET me == [Idle EXCEPT !.kind = "checkEligibility", !.email = email]
            member == ByEmail(email)
        IN  /\ Arrive(p)
            /\ DbUnchanged
            /\ IF member = {}
                 THEN Answer(p, me, "MemberNotFound")
                 ELSE Goto(p, [me EXCEPT !.rows = member, !.pc = "existing"])

\* member.entryCount || 1
EntryCountOr1(member) == IF member.entryCount = 0 THEN 1 ELSE member.entryCount

\* the check for an existing request of the entry, then the answer
CheckEligibilityExisting(p) ==
    LET me == procs[p]
        member == First(me.rows)
        entryCount == EntryCountOr1(member)
        eligible == entryCount >= 10
    IN  /\ Running(p, "checkEligibility", "existing")
        /\ DbUnchanged
        /\ IF ExistingRequest(member.id) # {}
             THEN Respond(p, "HasExistingRequest")
           ELSE IF eligible
             THEN Answer(p, [me EXCEPT !.amounts = Amounts(entryCount)],
                         "Eligible")
           ELSE Answer(p, [me EXCEPT !.amounts = [entryCount |-> entryCount]],
                       "NotEligibleYet")

\* mutant: only an unknown email is refused
UnknownOnly(member) == member = {}

\* !member || member.entryCount < 10
NotEligible(member) == member = {} \/ First(member).entryCount < 10

\* the request arrives; the member is read and must have paid ten entries
SubmitWithdrawal(p) ==
    \E email \in Emails :
        LET me == [Idle EXCEPT !.kind = "submitWithdrawal", !.email = email]
            member == ByEmail(email)
        IN  /\ Arrive(p)
            /\ DbUnchanged
            /\ IF NotEligible(member)
                 THEN Answer(p, me, "NotEligible")
                 ELSE Goto(p, [me EXCEPT !.rows = member, !.pc = "existing"])

\* the check for an existing request of the entry
SubmitWithdrawalExisting(p) ==
    LET me == procs[p]
    IN  /\ Running(p, "submitWithdrawal", "existing")
        /\ DbUnchanged
        /\ IF ExistingRequest(First(me.rows).id) # {}
             THEN Respond(p, "DuplicateWithdrawalRequest")
             ELSE Goto(p, [me EXCEPT !.pc = "insert"])

\* INSERT INTO withdrawal_requests: entry_id REFERENCES entries(id)
SubmitWithdrawalInsert(p) ==
    LET me == procs[p]
        member == First(me.rows)
    IN  /\ Running(p, "submitWithdrawal", "insert")
        /\ UNCHANGED <<entries, entrySeq, winners, winnerSeq, referrals>>
        /\ IF ById(member.id) = {}
             THEN /\ UNCHANGED <<withdrawals, withdrawalSeq>>
                  /\ Respond(p, "PersistenceError")
             ELSE /\ withdrawals' = withdrawals
                        \cup {WithdrawalRequest(withdrawalSeq, member)}
                  /\ withdrawalSeq' = withdrawalSeq + 1
                  /\ Answer(p, [me EXCEPT
                                  !.amounts = Amounts(member.entryCount)],
                            "success")

----------------------------------------------------------------------------
(* POST /admin/inquiry-reply *)

\* inquiryId and adminReply of the request body; "" is the absent reply
InquiryIds == {1, 2}
Replies == {"", "reply"}

\* a row of inquiries nobody has replied to
Inquiry(id, email) ==
    [id |-> id, email |-> email, status |-> "pending",
     adminReply |-> "", repliedAt |-> NULL]

\* UPDATE inquiries SET admin_reply = :adminReply, status = 'replied',
\*   replied_at = :now WHERE id = :inquiryId
ReplyUpdate(inquiryId, adminReply) ==
    { IF q.id = inquiryId
        THEN [q EXCEPT !.adminReply = adminReply, !.status = "replied",
                       !.repliedAt = now]
        ELSE q : q \in inquiries }

\* the whole handler: the UPDATE, then the reply email inside its own
\* try/catch (delivered or not), then the success answer
InquiryReply(p) ==
    \E inquiryId \in InquiryIds, adminReply \in Replies, delivered \in BOOLEAN :
        LET me == [Idle EXCEPT !.kind = "inquiryReply", !.id = inquiryId]
            updatedInquiry == {q \in inquiries : q.id = inquiryId}
            mails == {[to |-> q.email, template |-> "inquiryReply"] :
                        q \in updatedInquiry}
        IN  /\ Admit(p)
            /\ DbUnchanged
            /\ procs' = procs
            /\ IF adminReply = ""
                 THEN /\ UNCHANGED inquiries
                      /\ resp' = Response(me, "InvalidRequest")
                      /\ sent' = {}
               ELSE IF updatedInquiry = {}
                 THEN /\ UNCHANGED inquiries
                      /\ resp' = Response(me, "NotFound")
                      /\ sent' = {}
               ELSE /\ inquiries' = ReplyUpdate(inquiryId, adminReply)
                    /\ resp' = Response([me EXCEPT !.failed =
                                   IF delivered THEN {} ELSE mails], "success")
                    /\ sent' = IF delivered THEN mails ELSE {}

----------------------------------------------------------------------------
(* The system *)

Init ==
    /\ \E seed \in Seeds :
         /\ entries = seed.entries
         /\ winners = seed.winners
    /\ entrySeq = Cardinality(entries) + 1
    /\ winnerSeq = Cardinality(winners) + 1
    /\ withdrawals = {}
    /\ withdrawalSeq = 1
    /\ procs = [p \in Procs |-> Idle]
    /\ resp = NoResp
    /\ started = 0
    /\ sent = {}
    /\ now = SeedTime + 1
    /\ inquiries = {}
    /\ referrals = NoReferrals

Next ==
    \E p \in Procs :
        \/ CaptureOrder(p)
        \/ CaptureValidate(p)
        \/ CaptureRenew(p)
        \/ CaptureInsert(p)
        \/ CaptureCount(p)
        \/ CaptureNotify(p)
        \/ SelectWinner(p)
        \/ SelectWinnerPending(p)
        \/ SelectWinnerInsert(p)
        \/ DeleteEntry(p)
        \/ DeleteEntryDelete(p)
        \/ WinnerPaid(p)
        \/ WinnerPaidEntry(p)
        \/ DeleteWinner(p)
        \/ MonthlyReset(p)
        \/ MonthlyResetUpdate(p)
        \/ CheckEligibility(p)
        \/ CheckEligibilityExisting(p)
        \/ SubmitWithdrawal(p)
        \/ SubmitWithdrawalExisting(p)
        \/ SubmitWithdrawalInsert(p)

Spec == Init /\ [][Next]_vars

\* The withdrawal handlers alone, on a ledger of one member who has paid any
\* number of entries from 1 to MaxEntryCount
EligibilityInit ==
    /\ \E entryCount \in 1..MaxEntryCount :
         entries = {Entry(1, "a", "DW1", "active", NULL, 0, entryCount)}
    /\ entrySeq = 2
    /\ winners = {}
    /\ winnerSeq = 1
    /\ withdrawals = {}
    /\ withdrawalSeq = 1
    /\ procs = [p \in Procs |-> Idle]
    /\ resp = NoResp
    /\ started = 0
    /\ sent = {}
    /\ now = SeedTime + 1
    /\ inquiries = {}
    /\ referrals = NoReferrals

EligibilityNext ==
    \E p \in Procs :
        \/ CheckEligibility(p)
        \/ CheckEligibilityExisting(p)
        \/ SubmitWithdrawal(p)
        \/ SubmitWithdrawalExisting(p)
        \/ SubmitWithdrawalInsert(p)

EligibilitySpec == EligibilityInit /\ [][EligibilityNext]_vars

\* a minute passes
Tick ==
    /\ now < MaxTime
    /\ now' = now + 1
    /\ resp' = NoResp
    /\ sent' = {}
    /\ DbUnchanged
    /\ UNCHANGED <<procs, started, inquiries>>

\* The winner lifecycle under a clock that advances: "a" was drawn and paid
\* at SeedTime, then "b" was drawn
WinnerInit ==
    LET a == Entry(1, "a", "DW1", "winner_paid", NULL, 0, 1)
        b == Entry(2, "b", "DW2", "active", NULL, 0, 1)
    IN  /\ entries = {a, b}
        /\ entrySeq = 3
        /\ winners = {Winner(1, a, "paid"), Winner(2, b, "pending")}
        /\ winnerSeq = 3
        /\ withdrawals = {}
        /\ withdrawalSeq = 1
        /\ procs = [p \in Procs |-> Idle]
        /\ resp = NoResp
        /\ started = 0
        /\ sent = {}
        /\ now = SeedTime
        /\ inquiries = {}
        /\ referrals = NoReferrals

WinnerNext ==
    \/ Tick
    \/ \E p \in Procs :
          \/ SelectWinner(p)
          \/ SelectWinnerPending(p)
          \/ SelectWinnerInsert(p)
          \/ WinnerPaid(p)
          \/ WinnerPaidEntry(p)
          \/ DeleteWinner(p)
          \/ CurrentWinner(p)
          \/ CurrentWinnerPaid(p)
          \/ MonthlyReset(p)
          \/ MonthlyResetUpdate(p)

WinnerSpec == WinnerInit /\ [][WinnerNext]_vars

\* The handlers that send email, on a mail service whose deliveries can fail
\* and a database that can fail the referral increment and the statements
\* of the monthly reset; one inquiry is open
FaultInit ==
    /\ entries = {SeedA, SeedB("expired")}
    /\ entrySeq = 3
    /\ winners = {}
    /\ winnerSeq = 1
    /\ withdrawals = {}
    /\ withdrawalSeq = 1
    /\ procs = [p \in Procs |-> Idle]
    /\ resp = NoResp
    /\ started = 0
    /\ sent = {}
    /\ now = SeedTime + 1
    /\ inquiries = {Inquiry(1, "c")}
    /\ referrals = NoReferrals

FaultNext ==
    \E p \in Procs :
        \/ CaptureOrder(p)
        \/ CaptureValidate(p)
        \/ CaptureRenew(p)
        \/ CaptureInsert(p)
        \/ CaptureCount(p)
        \/ CaptureCountFails(p)
        \/ CaptureNotifyUnreliable(p)
        \/ MonthlyReset(p)
        \/ MonthlyResetUpdateUnreliable(p)
        \/ MonthlyResetSelectFails(p)
        \/ MonthlyResetUpdateFails(p)
        \/ InquiryReply(p)

FaultSpec == FaultInit /\ [][FaultNext]_vars

----------------------------------------------------------------------------
(* Properties *)

\* the request of kind `kind` naming row `id` is received in this step
Received(kind, id) ==
    /\ started' = started + 1
    /\ \/ resp'.kind = kind /\ resp'.id = id
       \/ \E p \in Procs : /\ procs[p].pc = "idle"
                           /\ procs'[p].kind = kind
                           /\ procs'[p].id = id

\* the handler in slot p takes this step
Steps(p) == procs'[p] # procs[p]

UniqueKeys ==
    \A e1, e2 \in entries :
        (e1.id = e2.id \/ e1.email = e2.email \/ e1.ref = e2.ref) => e1 = e2

RefImmutable ==
    \A e1 \in entries, e2 \in entries' : e1.id = e2.id => e2.ref = e1.ref

\* C1: in every reachable state no two entries share an id, an email or a
\* reference code, and no step changes the reference code of an entry
\* (a renewal keeps the code the entry had)
C1_UniqueAndImmutable == UniqueKeys /\ [][UniqueKeys' /\ RefImmutable]_vars

\* C1, its case: a /capture-order that found no entry for its email had its
\* INSERT rejected by the email constraint, the entry of a concurrent
\* request for the same email having been inserted in between
C1_Witness ==
    \E p \in Procs :
        /\ procs[p].kind = "capture" /\ procs[p].pc = "loop"
        /\ procs[p].existingEntry = {}
        /\ procs[p].dbError = "entries_email_unique"
        /\ Cardinality({e \in entries : e.email = procs[p].email}) = 1

\* C2: a /capture-order answered with success has created or renewed an
\* entry: its INSERT or UPDATE returned a row
C2_SuccessHasEntry ==
    (resp.kind = "capture" /\ resp.result = "success") => resp.updated # {}

\* C3: a /capture-order that has not yet written, and whose email belongs to
\* an active entry, changes no entry when it takes a step
C3_ActiveNoMutation ==
    [][\A p \in Procs :
          ( /\ Steps(p)
            /\ procs[p].kind = "capture" /\ procs[p].pc \in {"loop", "save"}
            /\ \E e \in entries : e.email = procs[p].email /\ e.status = "active" )
          => entries' = entries]_vars

\* C4: at most one winner has paymentStatus pending
C4_OnePending ==
    Cardinality({w \in winners : w.paymentStatus = "pending"}) <= 1

\* C5: when every referrer written by a reconciliation was newly attached
\* (to an entry that had none) and no referral increment is outstanding, the
\* referralCount of every referrer is the number of entries it was attached to
C5_ExactCount ==
    (~referrals.stale /\ \A p \in Procs : procs[p].pc # "count")
    => \A r \in entries :
          r.referralCount =
             Cardinality({l \in referrals.attached : l[1] = r.id})

\* C5, its case: one referrer newly attached to two entries, both counted
C5_Witness ==
    /\ ~referrals.stale
    /\ \A p \in Procs : procs[p].pc # "count"
    /\ \E r \in entries :
          /\ r.referralCount = 2
          /\ Cardinality({l \in referrals.attached : l[1] = r.id}) = 2

\* C6: a reconciliation (terms accepted, payment captured) whose referralCode
\* is the reference code of the entry of the paying email is answered with
\* SelfReferral
C6_SelfReferral ==
    ( /\ resp.kind = "capture" /\ resp.pay = "ok"
      /\ resp.referralCode # ""
      /\ \E e \in entries : e.email = resp.email /\ e.ref = resp.referralCode )
    => resp.result = "SelfReferral"

\* C7: no step changes a referredBy that is set
C7_ReferrerKept ==
    [][\A e1 \in entries, e2 \in entries' :
          (e1.id = e2.id /\ e1.referredBy # NULL)
          => e2.referredBy = e1.referredBy]_vars

\* C8: no two withdrawal requests are linked to the same entry
C8_OneRequestPerEntry ==
    \A r1, r2 \in withdrawals : r1.entryId = r2.entryId => r1 = r2

\* C9: a delete-entry request received while a winner (pending or paid)
\* references the entry is answered EntryReferencedByWinner and changes no
\* entry and no winner; and no step removes an entry a winner references
C9_DeleteBlocked ==
    [][ /\ \A id \in EntryIds :
             ( /\ Received("deleteEntry", id)
               /\ \E w \in winners : w.entryId = id )
             => /\ resp'.kind = "deleteEntry"
                /\ resp'.result = "EntryReferencedByWinner"
                /\ UNCHANGED <<entries, winners>>
        /\ \A e \in entries :
             (\A e2 \in entries' : e2.id # e.id)
             => /\ \A w \in winners : w.entryId # e.id
                /\ UNCHANGED winners ]_vars

\* C9, its case: delete-entry was refused for an entry with a pending winner
C9_Witness ==
    /\ resp.kind = "deleteEntry" /\ resp.result = "EntryReferencedByWinner"
    /\ \E e \in entries : e.id = resp.id
    /\ \E w \in winners : w.entryId = resp.id /\ w.paymentStatus = "pending"

\* C10: the DELETE of a delete-entry request that meets an existing entry no
\* winner references succeeds and removes the entry
C10_DeleteSucceeds ==
    [][\A p \in Procs :
          ( /\ Steps(p)
            /\ procs[p].kind = "deleteEntry" /\ procs[p].pc = "delete"
            /\ \E e \in entries : e.id = procs[p].id
            /\ \A w \in winners : w.entryId # procs[p].id )
          => /\ resp'.result = "success"
             /\ \A e \in entries' : e.id # procs[p].id]_vars

\* C11: the bulk update of a monthly reset turns every active entry to
\* expired and changes no other entry; and a monthly reset received while no
\* entry is active is answered with success at once, changes no table and
\* dispatches no email
C11_ResetIdempotent ==
    [][ /\ \A p \in Procs :
             ( /\ Steps(p)
               /\ procs[p].kind = "monthlyReset" /\ procs[p].pc = "update" )
             => /\ {e.id : e \in entries'} = {e.id : e \in entries}
                /\ \A e \in entries, e2 \in entries' :
                      e.id = e2.id
                      => IF e.status = "active"
                           THEN e2 = [e EXCEPT !.status = "expired"]
                           ELSE e2 = e
                /\ resp'.result = "success"
        /\ ( /\ started' = started + 1
             /\ \/ resp'.kind = "monthlyReset"
                \/ \E p \in Procs : procs'[p].kind = "monthlyReset"
                                     /\ procs[p].pc = "idle"
             /\ \A e \in entries : e.status # "active" )
          => /\ resp'.kind = "monthlyReset" /\ resp'.result = "success"
             /\ UNCHANGED <<entries, winners, withdrawals>>
             /\ sent' = {} ]_vars

\* C11, its case: a monthly reset expired the active entries (that of "a"
\* was active at the start), and the monthly reset that followed it was
\* answered with success without an email
C11_Witness ==
    /\ started = 2
    /\ resp.kind = "monthlyReset" /\ resp.result = "success"
    /\ sent = {}
    /\ \E e \in entries : e.id = SeedA.id /\ e.status = "expired"
    /\ \A e \in entries : e.status # "active"
    /\ \A p \in Procs : procs[p].pc = "idle"

\* C12: a new-entry insert rejected by the uniqueness of the reference code
\* (the code drawn is held by an entry) is retried, and only the rejection of
\* the last attempt is answered with an error; an insert that is not
\* rejected adds exactly one entry, for the paying email and under the code
\* drawn, which no entry held before
C12_RetryOnCollision ==
    [][\A p \in Procs :
          ( /\ Steps(p)
            /\ procs[p].kind = "capture" /\ procs[p].existingEntry = {}
            /\ \/ procs[p].pc = "save"
               \/ procs[p].pc = "loop" /\ procs[p].referralCode = "" )
          => /\ procs'[p].dbError = "entries_ref_unique"
                => /\ procs'[p].pc = "loop" /\ resp'.result = ""
                   /\ procs'[p].attempts < maxAttempts
                   /\ \E e \in entries : e.ref = procs'[p].ref
                   /\ entries' = entries
             /\ resp'.dbError = "entries_ref_unique"
                => resp'.attempts = maxAttempts /\ entries' = entries
             /\ (procs'[p].dbError = "" /\ resp'.dbError = "")
                => /\ procs'[p].pc \in {"count", "notify"}
                   /\ \A e \in entries : e.ref # procs'[p].ref
                   /\ \E e \in entries' :
                         /\ e.email = procs[p].email /\ e.ref = procs'[p].ref
                         /\ e \notin entries
                         /\ entries' = entries \cup {e} ]_vars

\* C12, its case: the only request so far, a new-entry reconciliation, was
\* answered with success after its second attempt (the first was rejected),
\* and the ledger holds one entry for its email, under a code of its own
C12_Witness ==
    /\ started = 1
    /\ resp.kind = "capture" /\ resp.result = "success"
    /\ ~resp.renewed /\ resp.attempts = 2
    /\ \E e \in entries :
          /\ e.email = resp.email /\ e.ref = resp.ref
          /\ \A e2 \in entries :
                (e2.email = e.email \/ e2.ref = e.ref) => e2 = e

\* C13: a new-entry reconciliation whose last allowed attempt was rejected by
\* the uniqueness of the reference code is answered with ReferenceExhausted
C13_ExhaustedKind ==
    ( /\ resp.kind = "capture"
      /\ resp.attempts = maxAttempts
      /\ resp.dbError = "entries_ref_unique" )
    => resp.result = "ReferenceExhausted"

\* C14: a new-entry insert rejected by the uniqueness of the email is not
\* retried, and is answered with the conflict error AlreadyActive or
\* DuplicateEmail
C14_LoserConflict ==
    /\ \A p \in Procs :
          ~ ( /\ procs[p].kind = "capture" /\ procs[p].pc = "loop"
              /\ procs[p].dbError = "entries_email_unique" )
    /\ resp.dbError = "entries_email_unique"
       => resp.result \in {"AlreadyActive", "DuplicateEmail"}

\* the tables and the emails are as they were
NoEffect ==
    /\ UNCHANGED <<entries, winners, withdrawals>>
    /\ sent' = {}

\* C15: a /capture-order received without termsAccepted is answered at once
\* with TermsNotAccepted: the payment capture is not attempted, no table
\* changes and no email is dispatched; no reconciliation goes on without the
\* terms accepted
C15_TermsFirst ==
    [][ /\ ( /\ started' = started + 1
             /\ resp'.kind = "capture" /\ ~resp'.termsAccepted )
          => /\ resp'.result = "TermsNotAccepted"
             /\ resp'.pay = ""
             /\ NoEffect
        /\ \A p \in Procs :
             (procs[p].pc = "idle" /\ procs'[p].kind = "capture")
             => procs'[p].termsAccepted ]_vars

\* C15, its case: the payment for an expired entry, which would have been
\* renewed, was refused for the terms
C15_Witness ==
    /\ resp.kind = "capture" /\ resp.result = "TermsNotAccepted"
    /\ ~resp.termsAccepted
    /\ \E e \in entries : e.email = resp.email /\ e.status = "expired"

\* C16: a /capture-order whose PayPal capture did not complete, or completed
\* with another amount or currency than 50.00 USD, is answered at once with a
\* payment error: no table changes and no email is dispatched; no
\* reconciliation goes on without a verified capture
C16_PaymentVerified ==
    [][ /\ ( /\ started' = started + 1
             /\ resp'.kind = "capture" /\ resp'.pay \in {"failed", "mismatch"} )
          => /\ resp'.result = IF resp'.pay = "failed"
                                 THEN "PaymentCaptureFailed"
                                 ELSE "PaymentMismatch"
             /\ NoEffect
        /\ \A p \in Procs :
             (procs[p].pc = "idle" /\ procs'[p].kind = "capture")
             => procs'[p].pay = "ok" ]_vars

\* C16, its case: the payment for an expired entry, which would have been
\* renewed, was refused for its amount or currency
C16_Witness ==
    /\ resp.kind = "capture" /\ resp.result = "PaymentMismatch"
    /\ resp.termsAccepted /\ resp.pay = "mismatch"
    /\ \E e \in entries : e.email = resp.email /\ e.status = "expired"

\* C17: the referrer validation of a /capture-order with a referralCode
\* answers InvalidReferralCode when no entry has the code, else
\* ReferrerInactive when that entry is not active, else SelfReferral when its
\* email is the paying email; the request so answered has written nothing,
\* and the validation itself changes no table and dispatches no email
C17_ReferralErrors ==
    [][\A p \in Procs :
          ( /\ Steps(p)
            /\ procs[p].kind = "capture" /\ procs[p].pc = "loop"
            /\ procs[p].referralCode # "" )
          => LET found == {e \in entries : e.ref = procs[p].referralCode}
                 failed == resp'.result \in {"InvalidReferralCode",
                                             "ReferrerInactive", "SelfReferral"}
             IN  /\ NoEffect
                 /\ found = {} => resp'.result = "InvalidReferralCode"
                 /\ (found # {} /\ \A e \in found : e.status # "active")
                    => resp'.result = "ReferrerInactive"
                 /\ (\E e \in found : /\ e.status = "active"
                                       /\ e.email = procs[p].email)
                    => resp'.result = "SelfReferral"
                 /\ (\E e \in found : /\ e.status = "active"
                                       /\ e.email # procs[p].email)
                    => resp'.result = "" /\ procs'[p].pc = "save"
                 /\ failed => resp'.updated = {} /\ procs'[p].pc = "idle"
      ]_vars

\* C17, its case: a request was refused for the code of the entry of its
\* own email, which is active (it was not when the request arrived)
C17_Witness ==
    /\ resp.kind = "capture" /\ resp.result = "SelfReferral"
    /\ resp.updated = {}
    /\ \E e \in entries : /\ e.ref = resp.referralCode
                          /\ e.email = resp.email /\ e.status = "active"

\* C18: the eligibility check answers eligible exactly for an entry count of
\* at least 10, and submit-withdrawal-request refuses exactly the members
\* below 10; the amounts answered and the amounts stored are, in cents,
\* totalPaid = 5000 x entryCount, serviceCharge = 350 x entryCount and
\* refundAmount = 4650 x entryCount, so that charge and refund add up to the
\* total
C18_Amounts ==
    /\ (resp.kind = "checkEligibility"
          /\ resp.result \in {"Eligible", "NotEligibleYet"})
       => /\ \E e \in entries : /\ e.email = resp.email
                                /\ e.entryCount = resp.amounts.entryCount
          /\ resp.result = "Eligible" <=> resp.amounts.entryCount >= 10
          /\ resp.result = "Eligible"
             => /\ resp.amounts.totalPaid = 5000 * resp.amounts.entryCount
                /\ resp.amounts.serviceCharge = 350 * resp.amounts.entryCount
                /\ resp.amounts.refundAmount = 4650 * resp.amounts.entryCount
    /\ resp.kind = "submitWithdrawal"
       => \A e \in entries :
             e.email = resp.email
             => (resp.result = "NotEligible" <=> e.entryCount < 10)
    /\ (resp.kind = "submitWithdrawal" /\ resp.result = "success")
       => resp.amounts.refundAmount = 4650 * resp.amounts.entryCount
    /\ \A r \in withdrawals :
          /\ r.entryCount >= 10
          /\ r.totalPaid = 5000 * r.entryCount
          /\ r.serviceChargeAmount = 350 * r.entryCount
          /\ r.refundAmount = 4650 * r.entryCount
          /\ r.serviceChargeAmount + r.refundAmount = r.totalPaid

\* C18, its case: the member with 11 entries was found eligible for
\* 550.00 / 38.50 / 511.50 while the request for these amounts was being
\* stored
C18_Witness ==
    /\ resp.kind = "checkEligibility" /\ resp.result = "Eligible"
    /\ resp.amounts = [entryCount |-> 11, totalPaid |-> 55000,
                       serviceCharge |-> 3850, refundAmount |-> 51150]
    /\ \E p \in Procs : procs[p].kind = "submitWithdrawal"

\* C19: select-winner answers EntryNotFound when no entry has the id and
\* EntryNotActive when the entry is not active, both on receipt, and
\* WinnerAlreadyPending when its check finds a pending winner; a select-winner
\* answered with an error changes no table; one answered with success has
\* inserted exactly one winner, pending, linked to the entry of the request
\* and carrying the email and reference code of that entry
C19_SelectWinner ==
    [][ /\ \A id \in EntryIds :
             Received("selectWinner", id)
             => LET entry == {e \in entries : e.id = id}
                IN  /\ entry = {}
                       => resp'.result = "EntryNotFound" /\ NoEffect
                    /\ (entry # {} /\ \A e \in entry : e.status # "active")
                       => resp'.result = "EntryNotActive" /\ NoEffect
                    /\ (\E e \in entry : e.status = "active")
                       => resp'.result = "" /\ NoEffect
        /\ \A p \in Procs :
             ( /\ Steps(p)
               /\ procs[p].kind = "selectWinner" /\ procs[p].pc = "pending" )
             => IF \E w \in winners : w.paymentStatus = "pending"
                  THEN resp'.result = "WinnerAlreadyPending" /\ NoEffect
                  ELSE resp'.result = "" /\ NoEffect
        /\ (resp'.kind = "selectWinner" /\ resp'.result # "success")
           => NoEffect
        /\ (resp'.kind = "selectWinner" /\ resp'.result = "success")
           => /\ UNCHANGED <<entries, withdrawals>>
              /\ \E w \in winners' :
                    /\ w \notin winners
                    /\ winners' = winners \cup {w}
                    /\ \A w0 \in winners : w0.id # w.id
                    /\ w.paymentStatus = "pending"
                    /\ w.entryId = resp'.id
                    /\ \E e \in entries :
                          e.id = w.entryId /\ e.email = w.email /\ e.ref = w.ref
      ]_vars

\* C19, its case: select-winner succeeded; the only pending winner is the
\* one of the entry it named
C19_Witness ==
    /\ resp.kind = "selectWinner" /\ resp.result = "success"
    /\ \E w \in winners :
          /\ w.paymentStatus = "pending" /\ w.entryId = resp.id
          /\ \A w0 \in winners : w0.paymentStatus = "pending" => w0 = w
          /\ \E e \in entries :
                e.id = w.entryId /\ e.email = w.email /\ e.ref = w.ref

\* C20: the step that turns a winner to paid also turns the entry it is
\* linked to into winner_paid
C20_PaidAtomic ==
    [][\A w \in winners, w2 \in winners' :
          ( /\ w.id = w2.id
            /\ w.paymentStatus # "paid" /\ w2.paymentStatus = "paid" )
          => \A e \in entries' :
                e.id = w2.entryId => e.status = "winner_paid"]_vars

\* C21: the second query of /current-winner answers the most recently paid
\* of the winners paid within the five minutes before it, and no winner
\* when there is none
C21_MostRecentlyPaid ==
    [][\A p \in Procs :
          ( /\ Steps(p)
            /\ procs[p].kind = "currentWinner" /\ procs[p].pc = "paid" )
          => LET recent == {w \in winners :
                              /\ w.paymentStatus = "paid"
                              /\ w.paidAt > procs[p].fiveMinutesAgo}
             IN  IF recent = {}
                   THEN resp'.result = "none"
                   ELSE /\ resp'.result = "winner"
                        /\ \E w \in recent :
                              /\ w.id = resp'.id
                              /\ \A w2 \in recent : w2.paidAt <= w.paidAt
      ]_vars

\* C22: a submit-withdrawal-request received for an email without entry, or
\* with an entry of fewer than 10 entries paid, is answered NotEligible at
\* once; a request answered with an error changes no table; one answered
\* with success has inserted exactly one withdrawal request, pending, linked
\* to the entry of the email, with that email and with the entry count read
\* (at least 10, at most that of the entry)
C22_SubmitWithdrawal ==
    [][ /\ \A email \in Emails :
             ( /\ started' = started + 1
               /\ \/ resp'.kind = "submitWithdrawal" /\ resp'.email = email
                  \/ \E p \in Procs : /\ procs[p].pc = "idle"
                                      /\ procs'[p].kind = "submitWithdrawal"
                                      /\ procs'[p].email = email )
             => /\ NoEffect
                /\ IF \E e \in entries : e.email = email /\ e.entryCount >= 10
                     THEN resp'.result = ""
                     ELSE resp'.result = "NotEligible"
        /\ (resp'.kind = "submitWithdrawal" /\ resp'.result # "success")
           => NoEffect
        /\ (resp'.kind = "submitWithdrawal" /\ resp'.result = "success")
           => /\ UNCHANGED <<entries, winners>>
              /\ \E r \in withdrawals' :
                    /\ r \notin withdrawals
                    /\ withdrawals' = withdrawals \cup {r}
                    /\ \A r0 \in withdrawals : r0.id # r.id
                    /\ r.status = "pending"
                    /\ r.memberEmail = resp'.email
                    /\ r.entryCount >= 10
                    /\ \E e \in entries :
                          /\ e.id = r.entryId /\ e.email = r.memberEmail
                          /\ r.entryCount <= e.entryCount
      ]_vars

\* C22, its case: the request of the member who paid 10 entries succeeded
\* and is the only withdrawal request
C22_Witness ==
    /\ resp.kind = "submitWithdrawal" /\ resp.result = "success"
    /\ \E r \in withdrawals :
          /\ withdrawals = {r}
          /\ r.status = "pending" /\ r.entryCount = 10
          /\ \E e \in entries :
                /\ e.id = r.entryId /\ e.email = resp.email
                /\ e.entryCount = 10

\* C23: the UPDATE of a renewal that meets the entry of its email changes
\* that entry in place: status active, paid, lastPaymentDate = now,
\* renewalDue = now + 30 days, entryCount one more, id, email, reference
\* code and referralCount as they were; it changes no other entry and adds
\* none; the renewal is then answered with success, as renewed, with the
\* reference code of the entry it found, which is the code of the entry
\* updated if that is still the entry found
C23_RenewalInPlace ==
    /\ [][\A p \in Procs :
             ( /\ Steps(p)
               /\ procs[p].kind = "capture" /\ procs[p].existingEntry # {}
               /\ procs[p].pc = "notify" )
             => /\ resp'.result = "success" /\ resp'.renewed
                /\ \A e \in procs[p].existingEntry : resp'.ref = e.ref
                /\ UNCHANGED entries ]_vars
    /\ [][\A p \in Procs :
             ( /\ Steps(p)
               /\ procs[p].kind = "capture" /\ procs[p].existingEntry # {}
               /\ \/ procs[p].pc = "save"
                  \/ procs[p].pc = "loop" /\ procs[p].referralCode = ""
               /\ procs'[p].dbError = "" /\ resp'.dbError = "" )
             => /\ {e.id : e \in entries'} = {e.id : e \in entries}
                /\ \A e \in entries, e2 \in entries' :
                      e.id = e2.id
                      => IF e.email = procs[p].email
                           THEN /\ e2.status = "active" /\ e2.paid
                                /\ e2.lastPaymentDate = now
                                /\ e2.renewalDue = now + 30 * 24 * 60
                                /\ e2.entryCount = e.entryCount + 1
                                /\ e2.email = e.email /\ e2.ref = e.ref
                                /\ e2.referralCount = e.referralCount
                                /\ e \in procs[p].existingEntry
                                   => procs'[p].ref = e.ref
                           ELSE e2 = e ]_vars

\* C23, its case: the entry that was expired with 10 entries paid at
\* SeedTime was renewed, once, and the renewal was answered with its code
C23_Witness ==
    /\ resp.kind = "capture" /\ resp.result = "success" /\ resp.renewed
    /\ \E e \in entries :
          /\ e.email = resp.email /\ e.ref = resp.ref
          /\ e.id = SeedB("expired").id
          /\ e.status = "active" /\ e.entryCount = 11
          /\ e.lastPaymentDate = now /\ now > SeedTime

\* C24: the INSERT of a reconciliation that found no entry of its email adds
\* exactly one row and changes no other: the email of the request,
\* entryCount 1, status active, paid, referralCount 0, terms accepted, a
\* reference code no entry had, and a referrer exactly if the request
\* carries a referral code, the entry holding that code; the reconciliation
\* is then answered with success, as not renewed, with the code of that row
C24_NewEntry ==
    /\ [][\A p \in Procs :
             ( /\ Steps(p)
               /\ procs[p].kind = "capture" /\ procs[p].existingEntry = {}
               /\ procs[p].pc = "notify" )
             => /\ resp'.result = "success" /\ ~resp'.renewed
                /\ resp'.ref = procs[p].ref
                /\ UNCHANGED entries ]_vars
    /\ [][\A p \in Procs :
             ( /\ Steps(p)
               /\ procs[p].kind = "capture" /\ procs[p].existingEntry = {}
               /\ \/ procs[p].pc = "save"
                  \/ procs[p].pc = "loop" /\ procs[p].referralCode = ""
               /\ procs'[p].dbError = "" /\ resp'.dbError = "" )
             => \E row \in entries' :
                   /\ row \notin entries
                   /\ entries' = entries \cup {row}
                   /\ \A e \in entries :
                         e.id # row.id /\ e.ref # row.ref /\ e.email # row.email
                   /\ row.email = procs[p].email
                   /\ row.entryCount = 1 /\ row.status = "active" /\ row.paid
                   /\ row.referralCount = 0 /\ row.termsAccepted
                   /\ row.lastPaymentDate = now
                   /\ row.renewalDue = now + 30 * 24 * 60
                   /\ procs'[p].ref = row.ref
                   /\ IF procs[p].referralCode = ""
                        THEN row.referredBy = NULL
                        ELSE \E r \in entries :
                                /\ r.id = row.referredBy
                                /\ r.ref = procs[p].referralCode ]_vars

\* C24, its case: a new entry with a referrer was stored and the
\* reconciliation answered with its code
C24_Witness ==
    /\ resp.kind = "capture" /\ resp.result = "success" /\ ~resp.renewed
    /\ resp.referralCode # ""
    /\ \E e \in entries :
          /\ e.email = resp.email /\ e.ref = resp.ref
          /\ e.entryCount = 1 /\ e.status = "active"
          /\ e.referredBy # NULL /\ e.lastPaymentDate = now

\* C25: a reconciliation increments the referralCount of its referrer only
\* after its own INSERT or UPDATE wrote that referrer into an entry that had
\* none, and the increment is by exactly 1
C25_IncrementIffWritten ==
    [][\A p \in Procs :
          ( /\ Steps(p)
            /\ procs[p].kind = "capture" /\ procs[p].pc = "count" )
          => /\ \E r \in procs[p].validatedReferrer, id \in procs[p].updated :
                   <<r.id, id>> \in referrals.attached
             /\ \A e \in entries, e2 \in entries' :
                   e.id = e2.id
                   => e2.referralCount \in
                         {e.referralCount, e.referralCount + 1} ]_vars

\* C26: when the referral increment of a reconciliation has failed, the
\* entry the reconciliation wrote does not point at the referrer: the
\* insert or update and the increment took effect together or not at all
C26_UpsertAndCountAtomic ==
    ( /\ resp.kind = "capture"
      /\ resp.dbError = "statement_failed" )
    => ~ \E e \in entries, r \in entries :
            /\ e.id \in resp.updated
            /\ r.ref = resp.referralCode
            /\ e.referredBy = r.id

\* C27: a delivery that fails does not fail its request or undo its writes:
\* a /capture-order whose confirmation was not delivered is answered with
\* success and the step changes no entry; the bulk update of a monthly reset,
\* when the database executes it, expires every active entry, attempts a reminder to every entry read
\* whichever deliveries fail, and is answered with success; an inquiry-reply
\* whose email was not delivered is answered with success with the inquiry
\* replied
C27_NotificationFailureContained ==
    [][ /\ \A p \in Procs :
             ( /\ Steps(p)
               /\ procs[p].kind = "capture" /\ procs[p].pc = "notify" )
             => /\ resp'.result = "success"
                /\ resp'.updated = procs[p].updated
                /\ sent' \cup resp'.failed # {}
                /\ UNCHANGED entries
        /\ \A p \in Procs :
             ( /\ Steps(p)
               /\ procs[p].kind = "monthlyReset" /\ procs[p].pc = "update"
               /\ resp'.dbError = "" )
             => /\ resp'.result = "success"
                /\ \A e \in entries' : e.status # "active"
                /\ sent' \cup resp'.failed =
                      {[to |-> e.email, template |-> "duePaymentReminder"] :
                          e \in procs[p].rows}
        /\ (resp'.kind = "inquiryReply" /\ resp'.failed # {})
             => /\ resp'.result = "success"
                /\ \E q \in inquiries' :
                      /\ q.id = resp'.id
                      /\ q.status = "replied" /\ q.adminReply # ""
                      /\ q.repliedAt = now ]_vars

\* C27, its case: the confirmation of a reconciliation that wrote an entry
\* was not delivered, and the reconciliation was answered with success
C27_Witness ==
    /\ resp.kind = "capture" /\ resp.result = "success"
    /\ resp.failed # {} /\ sent = {}
    /\ \E e \in entries :
          /\ e.id \in resp.updated /\ e.email = resp.email
          /\ e.status = "active" /\ e.lastPaymentDate = now

\* C28: a step of /capture-order attempts an email only as the last step of
\* a reconciliation whose writes are done, together with the success
\* answer: one email, to the payer, renewalNotification for a renewal and
\* paymentVerification for a new entry; and a reconciliation comes to that
\* step only by the step of its INSERT or UPDATE having succeeded with no
\* referral increment to follow, or by the step of its referral increment
\* having succeeded
C28_NotifyAfterWrites ==
    [][ /\ \A p \in Procs :
             ( /\ Steps(p)
               /\ procs[p].kind = "capture"
               /\ sent' \cup resp'.failed # {} )
             => /\ procs[p].pc = "notify"
                /\ resp'.result = "success"
                /\ sent' \cup resp'.failed =
                      {[to |-> procs[p].email,
                        template |-> IF procs[p].existingEntry # {}
                                       THEN "renewalNotification"
                                       ELSE "paymentVerification"]}
        /\ \A p \in Procs :
             ( /\ Steps(p)
               /\ procs'[p].kind = "capture" /\ procs'[p].pc = "notify" )
             => \/ /\ procs[p].pc = "count"
                   /\ \A e \in entries :
                         e.id \in {r.id : r \in procs[p].validatedReferrer}
                         => \E e2 \in entries' :
                               /\ e2.id = e.id
                               /\ e2.referralCount = e.referralCount + 1
                \/ /\ procs[p].pc \in {"loop", "save"}
                   /\ procs'[p].dbError = ""
                   /\ \/ procs'[p].validatedReferrer = {}
                      \/ \E e \in procs[p].existingEntry :
                            e.referredBy # NULL
                   /\ \/ \E w \in entries' :
                            /\ w.email = procs[p].email
                            /\ w.lastPaymentDate = now
                      \/ /\ procs[p].existingEntry # {}
                         /\ \A g \in entries : g.email # procs[p].email ]_vars

\* C28, its case: a renewal with a referral code wrote the entry and the
\* referrer's count, and its notification was delivered with the answer
C28_Witness ==
    /\ resp.kind = "capture" /\ resp.result = "success" /\ resp.renewed
    /\ resp.referralCode # ""
    /\ sent = {[to |-> resp.email, template |-> "renewalNotification"]}
    /\ \E e \in entries, r \in entries :
          /\ e.email = resp.email /\ e.lastPaymentDate = now
          /\ e.referredBy = r.id /\ r.ref = resp.referralCode
          /\ r.referralCount = 1

\* C29: the status of an entry changes only from active to expired, from
\* active to winner_paid, and from expired or winner_paid to active
C29_StatusTransitions ==
    [][\A e \in entries, e2 \in entries' :
          (e.id = e2.id /\ e.status # e2.status)
          => <<e.status, e2.status>> \in
                {<<"active", "expired">>, <<"active", "winner_paid">>,
                 <<"expired", "active">>, <<"winner_paid", "active">>}]_vars

\* C30: a winner that is paid stays as it is, paidAt included, until it is
\* deleted
C30_PaidIsTerminal ==
    [][\A w \in winners :
          w.paymentStatus = "paid"
          => \/ w \in winners'
             \/ \A w2 \in winners' : w2.id # w.id]_vars

\* C31: the step of a monthly reset that expires entries attempts a renewal
\* reminder to every entry it moves from active to expired
C31_ReminderForEveryExpired ==
    [][\A p \in Procs :
          ( /\ Steps(p)
            /\ procs[p].kind = "monthlyReset" )
          => \A e \in entries, e2 \in entries' :
                ( /\ e.id = e2.id
                  /\ e.status = "active" /\ e2.status = "expired" )
                => [to |-> e.email, template |-> "duePaymentReminder"]
                      \in sent' \cup resp'.failed ]_vars

\* C32: no step lowers the entryCount of an entry; a step raises it by at
\* most 1, and only a step of /capture-order changes it; an entry is
\* created with entryCount 1
C32_EntryCountMonotonic ==
    [][ /\ \A e \in entries, e2 \in entries' :
             e.id = e2.id
             => /\ e2.entryCount \in {e.entryCount, e.entryCount + 1}
                /\ e2.entryCount # e.entryCount
                   => \E p \in Procs :
                         /\ Steps(p)
                         /\ procs[p].kind = "capture"
                         /\ procs[p].existingEntry # {}
                         /\ procs[p].email = e.email
        /\ \A e2 \in entries' :
             (\A e \in entries : e.id # e2.id) => e2.entryCount = 1 ]_vars

\* C32, its case: the entry that had paid 10 times was renewed and then
\* expired by a monthly reset, which left the count of 11
C32_Witness ==
    /\ resp.kind = "monthlyReset" /\ resp.result = "success"
    /\ \E e \in entries :
          /\ e.id = SeedB("expired").id
          /\ e.entryCount = 11 /\ e.status = "expired"
          /\ e.lastPaymentDate = now

\* C33: a monthly reset one of whose statements failed is not answered with
\* success
C33_ResetFailurePropagates ==
    (resp.kind = "monthlyReset" /\ resp.dbError # "")
    => resp.result # "success"

\* C34: every winner is linked to an entry of the ledger; the INSERT of a
\* select-winner whose entry was deleted meanwhile is rejected and adds no
\* winner, and the DELETE of a delete-entry whose entry got a winner
\* meanwhile is rejected and removes no entry
C34_WinnerHasEntry ==
    /\ \A w \in winners : \E e \in entries : e.id = w.entryId
    /\ [][\A p \in Procs :
             /\ ( /\ Steps(p)
                  /\ procs[p].kind = "selectWinner" /\ procs[p].pc = "insert"
                  /\ \A e \in entries : e.id # procs[p].id )
                => /\ resp'.result = "PersistenceError"
                   /\ UNCHANGED winners
             /\ ( /\ Steps(p)
                  /\ procs[p].kind = "deleteEntry" /\ procs[p].pc = "delete"
                  /\ \E w \in winners : w.entryId = procs[p].id )
                => /\ resp'.result = "PersistenceError"
                   /\ UNCHANGED entries ]_vars

\* C34, its case: select-winner read the entry, delete-entry removed it,
\* and the INSERT of the winner was rejected
C34_Witness ==
    /\ resp.kind = "selectWinner" /\ resp.result = "PersistenceError"
    /\ \A e \in entries : e.id # resp.id
    /\ \A w \in winners : w.entryId # resp.id

\* C35: no entry is its own referrer
C35_NoSelfReferrer ==
    \A e \in entries : e.referredBy # e.id

\* C35, its case: a renewal that carries the reference code of its own
\* entry found that entry active at the validation (another renewal of it
\* had completed) and was refused as a self-referral
C35_Witness ==
    /\ resp.kind = "capture" /\ resp.result = "SelfReferral"
    /\ resp.renewed
    /\ \E e \in entries :
          /\ e.email = resp.email /\ e.ref = resp.referralCode
          /\ e.status = "active" /\ e.lastPaymentDate = now
          /\ e.referredBy = NULL

\* C36: whenever no reconciliation stands between its INSERT or UPDATE and
\* its referral increment, the referralCount of every entry is at least the
\* number of entries that have it as their referrer
C36_CountCoversLinks ==
    (\A p \in Procs : ~(procs[p].kind = "capture" /\ procs[p].pc = "count"))
    => \A r \in entries :
          r.referralCount >=
             Cardinality({e \in entries : e.referredBy = r.id})

\* the ledger holds a member of this email with at least 10 entries paid
\* and no withdrawal request
Submittable(email) ==
    \E e \in entries :
        /\ e.email = email /\ e.entryCount >= 10
        /\ \A r \in withdrawals : r.entryId # e.id

\* C37: on every ledger the two withdrawal handlers decide alike: a check
\* is answered eligible exactly when the ledger holds a member of the email
\* with 10 entries and no request; a submit passes its tests only on such a
\* ledger and is refused only on another; and the refund a submit stores
\* is the refund the check answered on the same ledger just before
C37_CheckAgreesWithSubmit ==
    [][ /\ (resp'.kind = "checkEligibility" /\ resp'.result # "")
           => (resp'.result = "Eligible" <=> Submittable(resp'.email))
        /\ \A p \in Procs :
             ( /\ Steps(p)
               /\ procs'[p].kind = "submitWithdrawal"
               /\ procs'[p].pc = "insert" )
             => Submittable(procs'[p].email)
        /\ ( /\ resp'.kind = "submitWithdrawal"
             /\ resp'.result \in {"NotEligible", "DuplicateWithdrawalRequest"} )
           => ~Submittable(resp'.email)
        /\ ( /\ resp.kind = "checkEligibility" /\ resp.result = "Eligible"
             /\ resp'.kind = "submitWithdrawal" /\ resp'.result = "success"
             /\ resp'.email = resp.email )
           => /\ resp'.amounts.refundAmount = resp.amounts.refundAmount
              /\ \E r \in withdrawals' :
                    /\ r \notin withdrawals
                    /\ r.memberEmail = resp.email
                    /\ r.refundAmount = resp.amounts.refundAmount
                    /\ r.entryCount = resp.amounts.entryCount ]_vars

\* C37, its case: the check has answered eligible, with a refund of 465.00,
\* on a ledger on which a submit of the same member has passed its tests
C37_Witness ==
    /\ resp.kind = "checkEligibility" /\ resp.result = "Eligible"
    /\ resp.amounts.refundAmount = 46500
    /\ withdrawals = {}
    /\ \E p \in Procs :
          /\ procs[p].kind = "submitWithdrawal" /\ procs[p].pc = "insert"
          /\ procs[p].email = resp.email

\* C38: the entry a pending winner is linked to is active
C38_PendingWinnerActive ==
    \A w \in winners :
        w.paymentStatus = "pending"
        => \E e \in entries : e.id = w.entryId /\ e.status = "active"

====
